---- MODULE Spec2Model ----
(***************************************************************************)
(* Provider abstraction and resilience layer of llm_engine/providers:      *)
(* request validation, the HTTP-status error mapper, the three vendor      *)
(* adapters' generate coroutines (Anthropic, OpenAI, Gemini REST and SDK   *)
(* paths), the Gemini class-level semaphore and its retry/backoff loop.    *)
(*                                                                         *)
(* Modelling conventions                                                   *)
(*  - temperature is kept in tenths (0.7 is 7), time in whole seconds of a *)
(*    logical clock, latency in milliseconds (1000 per second);            *)
(*  - logger calls are calls into the logging sink and change no state;    *)
(*  - asyncio.CancelledError is a BaseException (Python >= 3.8): neither   *)
(*    "except Exception" nor retry_on=(Exception,) catches it;             *)
(*  - a request object may carry a dynamically attached attribute "model"  *)
(*    (LLMRequest is an ordinary dataclass); the declared fields have none.*)
(***************************************************************************)
EXTENDS Integers, Sequences, FiniteSets, TLC

\* ------------------------------------------------------------------ bounds
NumCalls == 2
MaxRetriesCfg == 2
MaxConcurrentCfg == 2
MaxTime == 1
MaxInstances == 2
MaxGateCalls == 4
MaxTokens == 4
MaxBackoffRetries == 3

\* ------------------------------------------------------- program constants
SmartRetryMaxRetries == 3
BackoffBase == 2
MsPerSecond == 1000
TemperatureMax == 20
ConfigTimeout == 60

Calls == 1..NumCalls
Kinds == {"anthropic", "openai", "gemini"}

\* ---------------------------------------------------------------- requests
\* LLMRequest: the fields the adapters read.  model_attr is the value of the
\* object's attribute named "model", NoModelAttr when it has none (no declared
\* field has that name); model_override is "None" when not given; timeout
\* is the per-call timeout override in seconds, NoTimeout when None.
NoModelAttr == "<absent>"

NoTimeout == -1

LLMRequest(p, t, mt, tb, mo, ma, to) ==
    [prompt |-> p, temperature |-> t, max_tokens |-> mt,
     has_thinking_budget |-> tb, model_override |-> mo, model_attr |-> ma,
     timeout |-> to]

Requests ==
    { LLMRequest("p", 20, 1, FALSE, "None", NoModelAttr, NoTimeout),
      LLMRequest("p", 0, 2048, TRUE, "models/gemini-2.5-pro",
                 "claude-3-haiku-20240307", 5),
      LLMRequest("", 7, 2048, FALSE, "None", "claude-3-haiku-20240307",
                 NoTimeout),
      LLMRequest("p", -1, 2048, TRUE, "None", "claude-3-haiku-20240307",
                 NoTimeout),
      LLMRequest("p", 21, 2048, FALSE, "None", "claude-3-haiku-20240307",
                 NoTimeout),
      LLMRequest("p", 7, 0, TRUE, "None", "claude-3-haiku-20240307",
                 NoTimeout) }

\* The request GeminiProvider.health_check builds.
HealthCheckRequest ==
    LLMRequest("test", 1, 10, FALSE, "None", NoModelAttr, NoTimeout)

\* ------------------------------------------------------------------ errors
\* An error value: the exception class and the attributes it carries.
\* Attributes an exception class does not have are "none" / -1 (also the
\* value None of retry_after).  The metadata dictionary is kept only for its
\* status_code entry.
ErrorValue(k, prov, ra, sc, par, mo) ==
    [kind |-> k, provider |-> prov, retry_after |-> ra, status_code |-> sc,
     parameter |-> par, model |-> mo]

\* A builtin exception: no provider, no taxonomy attributes.
BuiltinError(k) == ErrorValue(k, "none", -1, -1, "none", "none")

NoError == BuiltinError("none")

TaxonomyKinds ==
    {"LLMProviderError", "RateLimitError", "QuotaExceededError",
     "ModelNotFoundError", "AuthenticationError", "ProviderUnavailableError",
     "ContentFilterError", "ContextLengthExceededError", "InvalidRequestError",
     "TimeoutError"}

\* Texts (response bodies, API keys) are sequences of one-character strings.
\* str.lower() on the letters that occur in the texts used here.
LowerChar(ch) ==
    CASE ch = "Q" -> "q" [] ch = "U" -> "u" [] ch = "O" -> "o"
      [] ch = "T" -> "t" [] ch = "A" -> "a" [] ch = "S" -> "s"
      [] ch = "K" -> "k" [] OTHER -> ch

Lower(text) == [i \in 1..Len(text) |-> LowerChar(text[i])]

\* sub in text
Contains(text, sub) ==
    \E i \in 0..(Len(text) - Len(sub)) : SubSeq(text, i + 1, i + Len(sub)) = sub

\* text.startswith(prefix)
StartsWith(text, prefix) ==
    Len(text) >= Len(prefix) /\ SubSeq(text, 1, Len(prefix)) = prefix

QuotaMarker == <<"q", "u", "o", "t", "a">>

\* **kwargs of from_http_status: the keywords retry_after and model, each
\* either given with a value or not given (-1 / NotGiven).
NotGiven == "<not given>"

Kwargs(retry_after, model) == [retry_after |-> retry_after, model |-> model]

NoKwargs == Kwargs(-1, NotGiven)

\* What a call yields: the value it returns or the exception it raises.
Returned(e) == [raised |-> FALSE, error |-> e]

Raised(e) == [raised |-> TRUE, error |-> e]

\* from_http_status with its first test reduced to "status_code == 401".
from_http_status_Only401(status_code, provider, response_text, kwargs) ==
    IF status_code = 401
      THEN Returned(ErrorValue("AuthenticationError", provider, -1, -1,
                               "none", "none"))
    ELSE IF status_code = 429
      THEN IF kwargs.retry_after # -1
             THEN Raised(BuiltinError("TypeError"))
             ELSE Returned(ErrorValue("RateLimitError", provider,
                                      kwargs.retry_after, -1, "none", "none"))
    ELSE IF status_code = 402 \/ Contains(Lower(response_text), QuotaMarker)
      THEN Returned(ErrorValue("QuotaExceededError", provider, -1, -1,
                               "none", "none"))
    ELSE IF status_code = 404
      THEN IF kwargs.model # NotGiven
             THEN Raised(BuiltinError("TypeError"))
             ELSE Returned(ErrorValue("ModelNotFoundError", provider, -1, -1,
                                      "none", "unknown"))
    ELSE IF status_code = 400
      THEN Returned(ErrorValue("InvalidRequestError", provider, -1, -1,
                               "unknown", "none"))
    ELSE IF status_code = 503 \/ status_code = 502
      THEN Returned(ErrorValue("ProviderUnavailableError", provider, -1, -1,
                               "none", "none"))
    ELSE Returned(ErrorValue("LLMProviderError", provider, -1, status_code,
                             "none", "none"))

\* from_http_status(status_code, provider, response_text, **kwargs).
\* RateLimitError(provider, retry_after=retry_after, ..., **kwargs) and
\* ModelNotFoundError(provider, model=kwargs.get('model', 'unknown'),
\* **kwargs) pass the keyword a second time when kwargs holds it: TypeError
\* (got multiple values for keyword argument).
from_http_status(status_code, provider, response_text, kwargs) ==
    IF status_code = 401 \/ status_code = 403
      THEN Returned(ErrorValue("AuthenticationError", provider, -1, -1,
                               "none", "none"))
    ELSE IF status_code = 429
      THEN LET retry_after == kwargs.retry_after
           IN  IF kwargs.retry_after # -1
                 THEN Raised(BuiltinError("TypeError"))
                 ELSE Returned(ErrorValue("RateLimitError", provider,
                                          retry_after, -1, "none", "none"))
    ELSE IF status_code = 402 \/ Contains(Lower(response_text), QuotaMarker)
      THEN Returned(ErrorValue("QuotaExceededError", provider, -1, -1,
                               "none", "none"))
    ELSE IF status_code = 404
      THEN IF kwargs.model # NotGiven
             THEN Raised(BuiltinError("TypeError"))
             ELSE Returned(ErrorValue("ModelNotFoundError", provider, -1, -1,
                                      "none", "unknown"))
    ELSE IF status_code = 400
      THEN Returned(ErrorValue("InvalidRequestError", provider, -1, -1,
                               "unknown", "none"))
    ELSE IF status_code = 503 \/ status_code = 502
      THEN Returned(ErrorValue("ProviderUnavailableError", provider, -1, -1,
                               "none", "none"))
    ELSE Returned(ErrorValue("LLMProviderError", provider, -1, status_code,
                             "none", "none"))

\* -------------------------------------------------------------- validation
\* validate_request without the upper temperature bound (the check
\* "request.temperature > 2" dropped).
validate_request_NoUpperTemperature(request) ==
    IF request.prompt = "" THEN BuiltinError("ValueError")
    ELSE IF request.temperature < 0 THEN BuiltinError("ValueError")
    ELSE IF request.max_tokens < 1 THEN BuiltinError("ValueError")
    ELSE NoError

\* BaseLLMProvider.validate_request: the error it raises, NoError when it
\* returns True.  Every failure is a builtin ValueError.
validate_request(request) ==
    IF request.prompt = "" THEN BuiltinError("ValueError")
    ELSE IF request.temperature < 0 \/ request.temperature > TemperatureMax
      THEN BuiltinError("ValueError")
    ELSE IF request.max_tokens < 1 THEN BuiltinError("ValueError")
    ELSE NoError

\* -------------------------------------------------------------------- cost
\* Prices are kept in cents per million tokens (0.25 dollars is 25), costs in
\* micro-dollars (6 fractional digits of a dollar).
Price(i, o) == [input |-> i, output |-> o]

AnthropicPricing ==
    [m \in {"claude-3-5-sonnet-20241022", "claude-3-5-haiku-20241022",
            "claude-3-opus-20240229", "claude-3-sonnet-20240229",
            "claude-3-haiku-20240307"} |->
       CASE m = "claude-3-5-sonnet-20241022" -> Price(300, 1500)
         [] m = "claude-3-5-haiku-20241022" -> Price(100, 500)
         [] m = "claude-3-opus-20240229" -> Price(1500, 7500)
         [] m = "claude-3-sonnet-20240229" -> Price(300, 1500)
         [] m = "claude-3-haiku-20240307" -> Price(25, 125)]

OpenAIPricing ==
    [m \in {"gpt-4-turbo", "gpt-4-turbo-preview", "gpt-4", "gpt-4-0125-preview",
            "gpt-4o", "gpt-3.5-turbo", "gpt-3.5-turbo-0125"} |->
       CASE m = "gpt-4-turbo" -> Price(1000, 3000)
         [] m = "gpt-4-turbo-preview" -> Price(1000, 3000)
         [] m = "gpt-4" -> Price(3000, 6000)
         [] m = "gpt-4-0125-preview" -> Price(1000, 3000)
         [] m = "gpt-4o" -> Price(500, 1500)
         [] m = "gpt-3.5-turbo" -> Price(50, 150)
         [] m = "gpt-3.5-turbo-0125" -> Price(50, 150)]

\* pricing.get(model, ...) with the cheapest model's pair as the default.
AnthropicCostPerToken_HaikuDefault(model) ==
    IF model \in DOMAIN AnthropicPricing THEN AnthropicPricing[model]
    ELSE Price(25, 125)

\* AnthropicProvider.get_cost_per_token: pricing.get(model, Sonnet pricing).
AnthropicCostPerToken(model) ==
    IF model \in DOMAIN AnthropicPricing THEN AnthropicPricing[model]
    ELSE Price(300, 1500)

\* OpenAIProvider.get_cost_per_token: pricing.get(model, GPT-4 Turbo pricing).
OpenAICostPerToken(model) ==
    IF model \in DOMAIN OpenAIPricing THEN OpenAIPricing[model]
    ELSE Price(1000, 3000)

\* GeminiProvider.get_cost_per_token: the flash, pro and default branches
\* all return the free tier.
GeminiCostPerToken(model) == Price(0, 0)

\* self.get_cost_per_token(model), dispatched on the adapter.
get_cost_per_token(kind, model) ==
    IF kind = "anthropic" THEN AnthropicCostPerToken(model)
    ELSE IF kind = "openai" THEN OpenAICostPerToken(model)
    ELSE GeminiCostPerToken(model)

\* round(x, 6) of n/d dollars-in-micro-units, n >= 0: nearest, ties to even.
RoundHalfEven(n, d) ==
    LET q == n \div d
        r == n % d
    IN  IF 2 * r < d THEN q
        ELSE IF 2 * r > d THEN q + 1
        ELSE IF q % 2 = 0 THEN q ELSE q + 1

\* calculate_cost with the output share subtracted instead of added.
calculate_cost_Subtracts(kind, input_tokens, output_tokens, model) ==
    LET costs == get_cost_per_token(kind, model)
        total == input_tokens * costs.input - output_tokens * costs.output
    IN  RoundHalfEven(total, 100)

\* BaseLLMProvider.calculate_cost, in micro-dollars.
calculate_cost(kind, input_tokens, output_tokens, model) ==
    LET costs == get_cost_per_token(kind, model)
        total == input_tokens * costs.input + output_tokens * costs.output
    IN  RoundHalfEven(total, 100)

\* --------------------------------------------------------------- responses
\* The part of a vendor's 200 payload the adapters read: whether it carries a
\* non-empty candidates/content list, the usage counts, and the vendor's own
\* total when the usage block supplies one.
Payload(hc, pt, ct, ht, tt) ==
    [has_candidates |-> hc, prompt_tokens |-> pt, completion_tokens |-> ct,
     has_total |-> ht, total_tokens |-> tt]

NoPayload == Payload(FALSE, 0, 0, FALSE, 0)

Payloads ==
    { Payload(TRUE, 3, 5, FALSE, 0),
      Payload(TRUE, 3, 5, TRUE, 10),
      NoPayload }

\* LLMResponse: the declared fields the adapters fill.
LLMResponse(content, model, provider, tokens_used, cost, latency_ms) ==
    [content |-> content, model |-> model, provider |-> provider,
     tokens_used |-> tokens_used, cost |-> cost, latency_ms |-> latency_ms]

NoResponse == LLMResponse("", "", "", -1, -1, -1)

\* What a generate call handed to its caller: nothing yet ("none"), a
\* Response ("response"), a raised error ("error"), or the value None
\* ("returned_none", the coroutine fell off its end); for a health_check
\* call the boolean it returned ("true", "false") or the error it raised.
Result(tag, err, resp) == [tag |-> tag, error |-> err, response |-> resp]

NoResult == Result("none", NoError, NoResponse)

\* ---------------------------------------------------------------- outcomes
\* What the vendor does with one transport attempt: an HTTP response
\* (status, body, retry-after header), a transport timeout
\* (asyncio.TimeoutError), or another transport exception.
Outcome(type, status, has_quota, retry_after, payload) ==
    [type |-> type, status |-> status, has_quota |-> has_quota,
     retry_after |-> retry_after, payload |-> payload]

NoOutcome == Outcome("none", 0, FALSE, -1, NoPayload)

Timeout == Outcome("timeout", 0, FALSE, -1, NoPayload)

Outcomes ==
    { Outcome("http", 200, FALSE, -1, p) : p \in Payloads }
    \cup { Outcome("http", 401, FALSE, -1, NoPayload),
           Outcome("http", 429, FALSE, 5, NoPayload),
           Timeout,
           Outcome("error", 0, FALSE, -1, NoPayload) }

\* ------------------------------------------------------------------- state
VARIABLES
    cfg,            \* the provider instance's configuration
    rate_limiter,   \* GeminiProvider._rate_limiter: the semaphore's free slots
    calls,          \* per caller-issued generate call: its coroutine's state
    mapper,         \* the last call of from_http_status: arguments and yield
    providers,      \* the GeminiProvider instances constructed so far
    api_key,        \* self.api_key of the provider instance
    built,          \* the last construction of a provider: arguments, yield
    priced          \* the last call of calculate_cost: arguments and yield

vars == <<cfg, rate_limiter, calls, mapper, providers, api_key, built, priced>>

\* The state outside the generate coroutines of one provider instance.
aux == <<mapper, providers, api_key, built, priced>>

Configs ==
    [kind : Kinds,
     max_retries : 0..MaxRetriesCfg,
     max_concurrent_requests : 1..MaxConcurrentCfg,
     genai_client : BOOLEAN]

\* self.default_model / config default_model, at the code's defaults.
default_model(kind) ==
    IF kind = "gemini" THEN "gemini-2.5-flash"
    ELSE IF kind = "anthropic" THEN "claude-3-5-sonnet-20241022"
    ELSE "gpt-4-turbo-preview"

\* A call that the caller has not issued yet.
IdleCall ==
    [pc |-> "idle", req |-> HealthCheckRequest, invocation |-> 0,
     attempt |-> 0, posts |-> 0, sdk_calls |-> 0, t_start |-> 0,
     t_disp |-> 0, sleep |-> 0, last |-> NoOutcome, result |-> NoResult,
     cancelled |-> FALSE, health_check |-> FALSE, deadline |-> 0]

\* from_http_status has not been called.
NoYield == Returned(NoError)

NoMapping ==
    [called |-> FALSE, status_code |-> 0, provider |-> "none",
     response_text |-> <<>>, kwargs |-> NoKwargs, yield |-> NoYield,
     again |-> NoYield]

\* self.api_key: whether it is a str, and its text.
\* DefaultKey is a key that passes the constructors' "if not self.api_key" test and
\* has the shape both vendors' keys start with.
ApiKey(is_str, text) == [is_str |-> is_str, text |-> text]

DefaultKey == ApiKey(TRUE, <<"s", "k", "-", "a", "n", "t", "-", "1">>)

\* None where a str is expected: a key config does not have, a variable the
\* environment does not have.
Unset == "<unset>"

\* No provider has been constructed.
NoConstruction ==
    [done |-> FALSE, kind |-> "none", api_key_cfg |-> Unset,
     api_key_env |-> Unset, environ |-> <<>>, raised |-> FALSE,
     api_key |-> Unset]

\* calculate_cost has not been called.
NoPricing ==
    [called |-> FALSE, kind |-> "none", model |-> "none", input_tokens |-> 0,
     output_tokens |-> 0, prices |-> Price(0, 0), cost |-> -1,
     between |-> FALSE, again |-> -1]

Init ==
    /\ cfg \in Configs
    /\ rate_limiter = cfg.max_concurrent_requests
    /\ calls = [c \in Calls |-> IdleCall]
    /\ mapper = NoMapping
    /\ providers = <<>>
    /\ api_key = DefaultKey
    /\ built = NoConstruction
    /\ priced = NoPricing

\* ------------------------------------------------- leaving a generate call
\* "except Exception" written as a bare "except:" (or run where
\* CancelledError derives from Exception): it catches every exception.
ExceptException_Bare(err) == TRUE

\* "except Exception as e:" - does the clause catch err?  Every exception
\* class here derives from Exception but asyncio.CancelledError.
ExceptException(err) == err.kind # "CancelledError"

\* The booleans health_check returns.
HealthTrue == Result("true", NoError, NoResponse)

HealthFalse == Result("false", NoError, NoResponse)

\* GeminiProvider.health_check with its "except Exception" clause raising
\* the exception again instead of returning False.
HealthCheckExcept_Reraise(err) == Result("error", err, NoResponse)

\* GeminiProvider.health_check, an exception leaves "await
\* self.generate(test_request)": "except Exception" logs a warning and
\* returns False; what the clause does not catch leaves health_check.
HealthCheckExcept(err) ==
    IF ExceptException(err) THEN HealthFalse
    ELSE Result("error", err, NoResponse)

\* The exception leaves generate (and its decorator): it reaches the caller,
\* or the try block of health_check when that made the call.
Raise(cr, err) ==
    [cr EXCEPT !.pc = "done", !.t_start = 0, !.sleep = 0, !.attempt = 0,
               !.invocation = 0,
               !.result = IF cr.health_check THEN HealthCheckExcept(err)
                          ELSE Result("error", err, NoResponse)]

\* The coroutine returns a Response (health_check then returns True).
Return(cr, resp) ==
    [cr EXCEPT !.pc = "done", !.t_start = 0, !.attempt = 0, !.invocation = 0,
               !.result = IF cr.health_check THEN HealthTrue
                          ELSE Result("response", NoError, resp)]

\* The coroutine ends without a return statement (health_check then
\* returns True).
ReturnNone(cr) ==
    [cr EXCEPT !.pc = "done", !.t_start = 0, !.attempt = 0, !.invocation = 0,
               !.result = IF cr.health_check THEN HealthTrue
                          ELSE Result("returned_none", NoError, NoResponse)]

\* retry_on=(Exception,): every exception but the BaseException-only
\* asyncio.CancelledError.
SmartRetryCatches(err) == err.kind # "CancelledError"

\* @SmartRetry(max_retries=3, base_delay=2.0, retry_on=(Exception,)) around
\* GeminiProvider.generate: an exception of retry_on leaving generate is
\* caught, and after a delay generate is invoked again with the same request,
\* up to max_retries re-invocations; then the exception is raised.
SmartRetry(cr, err) ==
    IF SmartRetryCatches(err) /\ cr.invocation <= SmartRetryMaxRetries
      THEN [cr EXCEPT !.pc = "retrywait", !.t_start = 0, !.t_disp = 0,
                      !.sleep = 0]
      ELSE Raise(cr, err)

\* An exception leaves the body of generate.
Propagate(cr, err) ==
    IF cfg.kind = "gemini" THEN SmartRetry(cr, err) ELSE Raise(cr, err)

\* timeout=aiohttp.ClientTimeout(total=self.timeout): the deadline of one
\* POST, in seconds; self.timeout is config.get('timeout', 60).
ClientTimeout(request) == ConfigTimeout

\* ------------------------------------------------------ transport dispatch
\* session.post(...) is awaited: one HTTP POST is on the wire.
Dispatch(cr) ==
    [cr EXCEPT !.pc = "inflight", !.posts = @ + 1, !.t_disp = 0,
               !.last = NoOutcome, !.deadline = ClientTimeout(cr.req)]

\* "async with self._rate_limiter": acquire at once when a slot is free,
\* otherwise suspend at the gate.  Yields the call and the free-slot count.
\* With the slot held the loop "for attempt in range(self.max_retries)" posts
\* its first attempt; with max_retries = 0 its body never runs, the coroutine
\* falls off its end and the slot is released again.
EnterGate(cr, free) ==
    IF free > 0
      THEN IF cfg.max_retries = 0
             THEN [call |-> ReturnNone(cr), free |-> free]
             ELSE [call |-> Dispatch([cr EXCEPT !.attempt = 0]), free |-> free - 1]
      ELSE [call |-> [cr EXCEPT !.pc = "gate"], free |-> free]

\* Gemini: model = request.model_override or self.default_model
GeminiModel(request) ==
    IF request.model_override # "None" THEN request.model_override
    ELSE default_model("gemini")

\* Anthropic, OpenAI: model = request.model or self.config.get(
\* 'default_model', ...), for a request object that has an attribute "model"
\* (reading it raises AttributeError otherwise); model_override is not read.
RequestModel(kind, request) ==
    IF request.model_attr # "" THEN request.model_attr
    ELSE default_model(kind)

\* The model an adapter puts into its vendor call and its Response.
VendorModel(kind, request) ==
    IF kind = "gemini" THEN GeminiModel(request)
    ELSE RequestModel(kind, request)

\* GeminiProvider.generate from its first line to its first suspension
\* point.  cr is the call at entry (request and invocation number set).
GeminiGenerate(cr, free) ==
    LET err == validate_request(cr.req)
    IN  IF err # NoError
          THEN [call |-> Propagate(cr, err), free |-> free]
        ELSE IF cr.req.has_thinking_budget /\ cfg.genai_client
          THEN \* _generate_with_sdk: start_time, then the executor call
               [call |-> [cr EXCEPT !.pc = "sdk", !.t_start = 0,
                                    !.t_disp = 0, !.sdk_calls = @ + 1],
                free |-> free]
          ELSE \* REST path: start_time, then the gate
               EnterGate([cr EXCEPT !.t_start = 0], free)

\* AnthropicProvider.generate from its first line to its first suspension
\* point: validation, then "request.model or ..." reads an attribute that
\* LLMRequest does not declare, then the single POST.
AnthropicGenerate(cr, free) ==
    LET err == validate_request(cr.req)
    IN  IF err # NoError
          THEN [call |-> Propagate(cr, err), free |-> free]
        ELSE IF cr.req.model_attr = NoModelAttr
          THEN [call |-> Propagate(cr, BuiltinError("AttributeError")),
                free |-> free]
        ELSE [call |-> Dispatch([cr EXCEPT !.t_start = 0, !.attempt = 0]),
              free |-> free]

\* OpenAIProvider.generate from its first line to its first suspension point.
OpenAIGenerate(cr, free) ==
    LET err == validate_request(cr.req)
    IN  IF err # NoError
          THEN [call |-> Propagate(cr, err), free |-> free]
        ELSE IF cr.req.model_attr = NoModelAttr
          THEN [call |-> Propagate(cr, BuiltinError("AttributeError")),
                free |-> free]
        ELSE [call |-> Dispatch([cr EXCEPT !.t_start = 0, !.attempt = 0]),
              free |-> free]

\* provider.generate(request), dispatched on the adapter.
Invoke(cr, free) ==
    IF cfg.kind = "gemini" THEN GeminiGenerate(cr, free)
    ELSE IF cfg.kind = "anthropic" THEN AnthropicGenerate(cr, free)
    ELSE OpenAIGenerate(cr, free)

\* -------------------------------------------------------------- actions
\* The caller awaits provider.generate(request).
Issue(c, request) ==
    /\ calls[c].pc = "idle"
    /\ LET r == Invoke([calls[c] EXCEPT !.req = request, !.invocation = 1],
                       rate_limiter)
       IN  /\ calls' = [calls EXCEPT ![c] = r.call]
           /\ rate_limiter' = r.free
    /\ UNCHANGED <<cfg, aux>>

\* A call suspended at the gate gets a slot and posts its first attempt.
Admit(c) ==
    /\ calls[c].pc = "gate"
    /\ rate_limiter > 0
    /\ LET r == EnterGate(calls[c], rate_limiter)
       IN  /\ calls' = [calls EXCEPT ![c] = r.call]
           /\ rate_limiter' = r.free
    /\ UNCHANGED <<cfg, aux>>

\* 2 ** attempt
RECURSIVE Pow(_, _)
Pow(b, k) == IF k = 0 THEN 1 ELSE b * Pow(b, k - 1)

\* RetryOrRaise with the semaphore acquired and released by hand and no
\* try/finally: an exception leaving the loop keeps the slot.
RetryOrRaise_NoRelease(cr, err, free) ==
    IF cr.attempt < cfg.max_retries - 1
      THEN [call |-> [cr EXCEPT !.pc = "backoff", !.t_disp = 0,
                                !.sleep = Pow(BackoffBase, cr.attempt)],
            free |-> free]
      ELSE [call |-> Propagate(cr, err), free |-> free]

\* The tail with the sleep outside the "async with" block: the slot is given
\* back for the time of the delay.
RetryOrRaise_ReleasesWhileSleeping(cr, err, free) ==
    IF cr.attempt < cfg.max_retries - 1
      THEN [call |-> [cr EXCEPT !.pc = "backoff", !.t_disp = 0,
                                !.sleep = Pow(BackoffBase, cr.attempt)],
            free |-> free + 1]
      ELSE [call |-> Propagate(cr, err), free |-> free + 1]

\* The tail with a fixed delay of one second between attempts.
RetryOrRaise_FixedDelay(cr, err, free) ==
    IF cr.attempt < cfg.max_retries - 1
      THEN [call |-> [cr EXCEPT !.pc = "backoff", !.t_disp = 0,
                                !.sleep = 1],
            free |-> free]
      ELSE [call |-> Propagate(cr, err), free |-> free + 1]

\* The shared tail of the three failure branches of the Gemini retry loop:
\* sleep 2 ** attempt and continue while attempts are left, else the
\* exception leaves the loop, the session and the semaphore block.
RetryOrRaise(cr, err, free) ==
    IF cr.attempt < cfg.max_retries - 1
      THEN [call |-> [cr EXCEPT !.pc = "backoff", !.t_disp = 0,
                                !.sleep = Pow(BackoffBase, cr.attempt)],
            free |-> free]
      ELSE [call |-> Propagate(cr, err), free |-> free + 1]

\* The LLMResponse the Gemini REST path builds from a 200 payload.
GeminiResponse(cr, payload) ==
    LET model == GeminiModel(cr.req)
        total_tokens == IF payload.has_total THEN payload.total_tokens
                        ELSE payload.prompt_tokens + payload.completion_tokens
        cost == calculate_cost("gemini", payload.prompt_tokens,
                               payload.completion_tokens, model)
    IN  LLMResponse("text", model, "gemini", total_tokens, cost,
                    cr.t_start * MsPerSecond)

\* The loop with the semaphore acquired and released by hand, the release
\* missing before the "return" of the 200 branch.
GeminiRespond_NoReleaseOnReturn(cr, o, free) ==
    IF o.type = "http" /\ o.status # 200
      THEN \* raise Exception(f"Gemini API ... (HTTP {status}) ...")
           RetryOrRaise(cr, BuiltinError("Exception"), free)
    ELSE IF o.type = "http"
      THEN IF o.payload.has_candidates
             THEN [call |-> Return(cr, GeminiResponse(cr, o.payload)),
                   free |-> free]
             ELSE \* candidate.get('finishReason'): candidate was never bound
                  RetryOrRaise(cr, BuiltinError("UnboundLocalError"), free)
    ELSE IF o.type = "timeout"
      THEN \* raise Exception(f"Gemini API timeout after ... attempts")
           RetryOrRaise(cr, BuiltinError("Exception"), free)
    ELSE RetryOrRaise(cr, BuiltinError("ClientError"), free)

\* One attempt of the Gemini REST loop ends with outcome o.
GeminiRespond(cr, o, free) ==
    IF o.type = "http" /\ o.status # 200
      THEN \* raise Exception(f"Gemini API ... (HTTP {status}) ...")
           RetryOrRaise(cr, BuiltinError("Exception"), free)
    ELSE IF o.type = "http"
      THEN IF o.payload.has_candidates
             THEN [call |-> Return(cr, GeminiResponse(cr, o.payload)),
                   free |-> free + 1]
             ELSE \* candidate.get('finishReason'): candidate was never bound
                  RetryOrRaise(cr, BuiltinError("UnboundLocalError"), free)
    ELSE IF o.type = "timeout"
      THEN \* raise Exception(f"Gemini API timeout after ... attempts")
           RetryOrRaise(cr, BuiltinError("Exception"), free)
    ELSE RetryOrRaise(cr, BuiltinError("ClientError"), free)

\* The LLMResponse _generate_with_sdk builds.
SdkResponse(cr, payload) ==
    LET model == GeminiModel(cr.req)
        total_tokens == IF payload.has_total THEN payload.total_tokens
                        ELSE payload.prompt_tokens + payload.completion_tokens
        cost == calculate_cost("gemini", payload.prompt_tokens,
                               payload.completion_tokens, model)
    IN  LLMResponse(IF payload.has_candidates THEN "text" ELSE "", model,
                    "gemini", total_tokens, cost, cr.t_start * MsPerSecond)

\* The executor call of _generate_with_sdk ends: a response object, or an
\* exception that is logged and raised again.
SdkRespond(cr, o) ==
    IF o.type = "http" /\ o.status = 200
      THEN Return(cr, SdkResponse(cr, o.payload))
      ELSE Propagate(cr, BuiltinError("SDKError"))

\* The single attempt of AnthropicProvider.generate ends.  On 200 the usage
\* is read and LLMResponse(...) is called with the keywords input_tokens and
\* output_tokens, which LLMResponse does not declare: TypeError, logged and
\* raised again by "except Exception".  A non-200 status and a timeout raise
\* a plain Exception; any other exception is raised again as it is.
AnthropicRespond(cr, o) ==
    IF o.type = "http" /\ o.status = 200
      THEN Propagate(cr, BuiltinError("TypeError"))
    ELSE IF o.type = "http" THEN Propagate(cr, BuiltinError("Exception"))
    ELSE IF o.type = "timeout" THEN Propagate(cr, BuiltinError("Exception"))
    ELSE Propagate(cr, BuiltinError("ClientError"))

\* The single attempt of OpenAIProvider.generate ends: as Anthropic's, but
\* on 200 data['choices'][0] is indexed first.
OpenAIRespond(cr, o) ==
    IF o.type = "http" /\ o.status = 200
      THEN IF ~o.payload.has_candidates
             THEN Propagate(cr, BuiltinError("KeyError"))
             ELSE Propagate(cr, BuiltinError("TypeError"))
    ELSE IF o.type = "http" THEN Propagate(cr, BuiltinError("Exception"))
    ELSE IF o.type = "timeout" THEN Propagate(cr, BuiltinError("Exception"))
    ELSE Propagate(cr, BuiltinError("ClientError"))

\* The vendor answers the attempt of call c (or its deadline passes).
Respond(c, o) ==
    /\ calls[c].pc = "inflight"
    /\ LET cr == [calls[c] EXCEPT !.last = o]
       IN  IF cfg.kind = "gemini"
             THEN LET r == GeminiRespond(cr, o, rate_limiter)
                  IN  /\ calls' = [calls EXCEPT ![c] = r.call]
                      /\ rate_limiter' = r.free
           ELSE IF cfg.kind = "anthropic"
             THEN /\ calls' = [calls EXCEPT ![c] = AnthropicRespond(cr, o)]
                  /\ UNCHANGED rate_limiter
             ELSE /\ calls' = [calls EXCEPT ![c] = OpenAIRespond(cr, o)]
                  /\ UNCHANGED rate_limiter
    /\ UNCHANGED <<cfg, aux>>

\* The SDK call of call c ends.
RespondSdk(c, o) ==
    /\ calls[c].pc = "sdk"
    /\ calls' = [calls EXCEPT ![c] = SdkRespond([calls[c] EXCEPT !.last = o], o)]
    /\ UNCHANGED <<cfg, rate_limiter, aux>>

\* The loop written to count self.max_retries down as it goes round.
Wake_CountsDownMaxRetries(c) ==
    /\ calls[c].pc = "backoff"
    /\ calls[c].sleep = 0
    /\ calls' = [calls EXCEPT ![c] = Dispatch([calls[c] EXCEPT !.attempt = @ + 1])]
    /\ cfg' = [cfg EXCEPT !.max_retries = @ - 1]
    /\ UNCHANGED <<rate_limiter, aux>>

\* asyncio.sleep(wait_time) of call c is over: "continue" starts the next
\* iteration of the loop, which posts again.
Wake(c) ==
    /\ calls[c].pc = "backoff"
    /\ calls[c].sleep = 0
    /\ calls' = [calls EXCEPT ![c] = Dispatch([calls[c] EXCEPT !.attempt = @ + 1])]
    /\ UNCHANGED <<cfg, rate_limiter, aux>>

\* The SmartRetry delay of call c is over: generate is invoked again.
RetryWake(c) ==
    /\ calls[c].pc = "retrywait"
    /\ LET r == Invoke([calls[c] EXCEPT !.invocation = @ + 1,
                                         !.last = NoOutcome], rate_limiter)
       IN  /\ calls' = [calls EXCEPT ![c] = r.call]
           /\ rate_limiter' = r.free
    /\ UNCHANGED <<cfg, aux>>

Suspended == {"gate", "inflight", "backoff", "sdk", "retrywait"}

\* Call c holds a slot of the semaphore: it is inside the "async with" block.
Holds(c) == cfg.kind = "gemini" /\ calls[c].pc \in {"inflight", "backoff"}

\* The suspension point of the call lies inside the "try:" of the Gemini
\* loop: the pending session.post, and the sleep after a non-200 status
\* (the sleeps after a timeout or another exception are in the handlers).
InTry(cr) ==
    \/ cr.pc = "inflight"
    \/ cr.pc = "backoff" /\ cr.last.type = "http"

\* CancelledError is raised at the suspension point of a Gemini call.  At
\* the gate, in the SDK call and in the SmartRetry delay no handler of
\* generate is on the way; inside the "try:" the clause "except Exception"
\* is asked first, and leaving the "async with" block releases the slot.
GeminiCancel(cr, free) ==
    LET err == BuiltinError("CancelledError")
        at == [cr EXCEPT !.cancelled = TRUE, !.t_disp = 0]
    IN  IF cr.pc \in {"gate", "sdk", "retrywait"}
          THEN [call |-> Propagate([at EXCEPT !.last = NoOutcome], err),
                free |-> free]
        ELSE IF InTry(cr) /\ ExceptException(err)
          THEN RetryOrRaise(at, err, free)
          ELSE [call |-> Propagate([at EXCEPT !.last = NoOutcome], err),
                free |-> free + 1]

\* CancelledError is raised at the pending POST of an Anthropic or OpenAI
\* call: "except Exception" logs and raises again, so the error leaves either
\* way.
PlainCancel(cr) ==
    Propagate([cr EXCEPT !.cancelled = TRUE, !.t_disp = 0,
                         !.last = NoOutcome],
              BuiltinError("CancelledError"))

\* The caller cancels the task of call c at its suspension point.
Cancel(c) ==
    /\ calls[c].pc \in Suspended
    /\ IF cfg.kind = "gemini"
         THEN LET r == GeminiCancel(calls[c], rate_limiter)
              IN  /\ calls' = [calls EXCEPT ![c] = r.call]
                  /\ rate_limiter' = r.free
         ELSE /\ calls' = [calls EXCEPT ![c] = PlainCancel(calls[c])]
              /\ UNCHANGED rate_limiter
    /\ UNCHANGED <<cfg, aux>>

\* One second of the logical clock passes.
Timed == {"gate", "inflight", "backoff", "sdk"}

Tick ==
    /\ \E c \in Calls : calls[c].pc \in Timed
    /\ \/ \E c \in Calls : calls[c].pc = "backoff" /\ calls[c].sleep > 0
       \/ \A c \in Calls : calls[c].pc \in Timed => calls[c].t_start < MaxTime
    /\ calls' = [c \in Calls |->
                   IF calls[c].pc \in Timed
                     THEN [calls[c] EXCEPT
                             !.t_start = @ + 1,
                             !.t_disp = IF calls[c].pc \in {"inflight", "sdk"}
                                          THEN @ + 1 ELSE @,
                             !.sleep = IF @ > 0 THEN @ - 1 ELSE 0]
                     ELSE calls[c]]
    /\ UNCHANGED <<cfg, rate_limiter, aux>>

Next ==
    \/ \E c \in Calls, request \in Requests : Issue(c, request)
    \/ \E c \in Calls : Admit(c)
    \/ \E c \in Calls, o \in Outcomes : Respond(c, o)
    \/ \E c \in Calls, o \in Outcomes : RespondSdk(c, o)
    \/ \E c \in Calls : Wake(c)
    \/ \E c \in Calls : RetryWake(c)
    \/ \E c \in Calls : Cancel(c)
    \/ Tick

Spec == Init /\ [][Next]_vars

\* ------------------------------------------- the error mapper on its own
\* The arguments from_http_status is called with.
StatusCodes == {200, 400, 401, 402, 403, 404, 418, 429, 500, 502, 503}

ResponseTexts ==
    { <<>>,
      <<"q", "u", "o", "t", "a">>,
      <<"Q", "U", "O", "T", "A">>,
      <<"n", "o", " ", "Q", "u", "o", "t", "a", "!">>,
      <<"q", "u", "o", "t">>,
      <<"n", "o", "t", " ", "f", "o", "u", "n", "d">> }

RetryAfters == {-1, 0, 5}

ModelKeywords == {NotGiven, "gemini-2.5-pro"}

\* The configuration the mapper is exercised under (it reads none of it).
DefaultConfig ==
    [kind |-> "gemini", max_retries |-> MaxRetriesCfg,
     max_concurrent_requests |-> MaxConcurrentCfg, genai_client |-> FALSE]

MapperInit ==
    /\ cfg = DefaultConfig
    /\ rate_limiter = cfg.max_concurrent_requests
    /\ calls = [c \in Calls |-> IdleCall]
    /\ mapper = NoMapping
    /\ providers = <<>>
    /\ api_key = DefaultKey
    /\ built = NoConstruction
    /\ priced = NoPricing

\* from_http_status(status_code, provider, response_text, **kwargs) is called
\* (the record keeps one call and its repetition).
Map(status_code, provider, response_text, kwargs) ==
    /\ ~mapper.called
    /\ mapper' = [called |-> TRUE, status_code |-> status_code,
                  provider |-> provider, response_text |-> response_text,
                  kwargs |-> kwargs,
                  yield |-> from_http_status(status_code, provider,
                                             response_text, kwargs),
                  again |-> NoYield]
    /\ UNCHANGED <<cfg, rate_limiter, calls, providers, api_key, built, priced>>

\* from_http_status is called once more with the arguments of the last call.
MapAgain ==
    /\ mapper.called
    /\ mapper.again = NoYield
    /\ mapper' = [mapper EXCEPT
                    !.again = from_http_status(mapper.status_code,
                                               mapper.provider,
                                               mapper.response_text,
                                               mapper.kwargs)]
    /\ UNCHANGED <<cfg, rate_limiter, calls, providers, api_key, built, priced>>

MapperNext ==
    \/ \E status_code \in StatusCodes, provider \in Kinds,
          response_text \in ResponseTexts, retry_after \in RetryAfters,
          model \in ModelKeywords :
         Map(status_code, provider, response_text, Kwargs(retry_after, model))
    \/ MapAgain

MapperSpec == MapperInit /\ [][MapperNext]_vars

\* ------------------------------------------- resolving the credential
\* bool(v) of an Optional[str].
Truthy(v) == v # Unset /\ v # ""

\* The python expression "a or b".
Or(a, b) == IF Truthy(a) THEN a ELSE b

\* The names of the environment variables the constructors may read: each
\* vendor's default name and one name a config may give as 'api_key_env'.
EnvNames ==
    {"ANTHROPIC_API_KEY", "OPENAI_API_KEY", "GEMINI_API_KEY", "MY_LLM_KEY"}

\* The value a variable of the environment has when it is set and not empty.
EnvValue(name) ==
    CASE name = "ANTHROPIC_API_KEY" -> "key-of-ANTHROPIC_API_KEY"
      [] name = "OPENAI_API_KEY" -> "key-of-OPENAI_API_KEY"
      [] name = "GEMINI_API_KEY" -> "key-of-GEMINI_API_KEY"
      [] OTHER -> "key-of-MY_LLM_KEY"

\* os.environ: per name, Unset, the empty string or the variable's value.
Environs == {e \in [EnvNames -> {Unset, "", "set"}] : TRUE}

\* os.getenv(name).
getenv(environ, name) ==
    IF environ[name] = "set" THEN EnvValue(name) ELSE environ[name]

\* config.get('api_key_env', default).
ConfigGetApiKeyEnv(api_key_env, default) ==
    IF api_key_env = Unset THEN default ELSE api_key_env

\* AnthropicProvider.__init__: self.api_key.
AnthropicApiKey(api_key_cfg, api_key_env, environ) ==
    Or(api_key_cfg,
       getenv(environ, ConfigGetApiKeyEnv(api_key_env, "ANTHROPIC_API_KEY")))

\* OpenAIProvider.__init__: self.api_key.
OpenAIApiKey(api_key_cfg, api_key_env, environ) ==
    Or(api_key_cfg,
       getenv(environ, ConfigGetApiKeyEnv(api_key_env, "OPENAI_API_KEY")))

\* GeminiProvider.__init__: self.api_key.  It reads no 'api_key_env'.
GeminiApiKey(api_key_cfg, api_key_env, environ) ==
    Or(api_key_cfg, getenv(environ, "GEMINI_API_KEY"))

ResolveApiKey(kind, api_key_cfg, api_key_env, environ) ==
    IF kind = "gemini" THEN GeminiApiKey(api_key_cfg, api_key_env, environ)
    ELSE IF kind = "anthropic"
      THEN AnthropicApiKey(api_key_cfg, api_key_env, environ)
    ELSE OpenAIApiKey(api_key_cfg, api_key_env, environ)

\* --------------------------------- several GeminiProvider instances
\* "_rate_limiter = None" in the class body: no semaphore yet.
NoRateLimiter == -1

\* An instance as the gate sees it: its own max_concurrent_requests option,
\* its calls inside "async with self._rate_limiter" and its calls suspended
\* at the acquire.
Provider(max_concurrent, in_flight, waiting) ==
    [max_concurrent_requests |-> max_concurrent, in_flight |-> in_flight,
     waiting |-> waiting]

Instances == 1..Len(providers)

RECURSIVE SumCalls(_)
SumCalls(i) ==
    IF i = 0 THEN 0
    ELSE providers[i].in_flight + providers[i].waiting + SumCalls(i - 1)

GateInit ==
    /\ cfg = DefaultConfig
    /\ rate_limiter = NoRateLimiter
    /\ calls = [c \in Calls |-> IdleCall]
    /\ mapper = NoMapping
    /\ providers = <<>>
    /\ api_key = DefaultKey
    /\ built = NoConstruction
    /\ priced = NoPricing

\* An environment without any of the key variables.
NoEnviron == [name \in EnvNames |-> Unset]

\* GeminiProvider(config): "if GeminiProvider._rate_limiter is None" the
\* class attribute becomes a semaphore of this config's
\* max_concurrent_requests; a later construction keeps the one that exists.
\* Only then the key is looked for: without one ValueError is raised and no
\* instance comes to exist.
GeminiProviderInit(max_concurrent, api_key_cfg) ==
    /\ Len(providers) < MaxInstances
    /\ rate_limiter' = IF rate_limiter = NoRateLimiter THEN max_concurrent
                       ELSE rate_limiter
    /\ LET key == GeminiApiKey(api_key_cfg, Unset, NoEnviron)
       IN  /\ built' = [done |-> TRUE, kind |-> "gemini",
                         api_key_cfg |-> api_key_cfg, api_key_env |-> Unset,
                         environ |-> NoEnviron, raised |-> ~Truthy(key),
                         api_key |-> IF Truthy(key) THEN key ELSE Unset]
           /\ providers' = IF Truthy(key)
                             THEN Append(providers,
                                         Provider(max_concurrent, 0, 0))
                             ELSE providers
    /\ UNCHANGED <<cfg, calls, mapper, api_key, priced>>

\* A generate call on instance i reaches "async with self._rate_limiter".
GateEnter(i) ==
    /\ i \in Instances
    /\ SumCalls(Len(providers)) < MaxGateCalls
    /\ IF rate_limiter > 0
         THEN /\ rate_limiter' = rate_limiter - 1
              /\ providers' = [providers EXCEPT ![i].in_flight = @ + 1]
         ELSE /\ rate_limiter' = rate_limiter
              /\ providers' = [providers EXCEPT ![i].waiting = @ + 1]
    /\ UNCHANGED <<cfg, calls, mapper, api_key, built, priced>>

\* A call of instance i suspended at the acquire gets a slot.
GateAdmit(i) ==
    /\ i \in Instances
    /\ providers[i].waiting > 0
    /\ rate_limiter > 0
    /\ rate_limiter' = rate_limiter - 1
    /\ providers' = [providers EXCEPT ![i].waiting = @ - 1,
                                      ![i].in_flight = @ + 1]
    /\ UNCHANGED <<cfg, calls, mapper, api_key, built, priced>>

\* A call of instance i leaves the "async with" block.
GateLeave(i) ==
    /\ i \in Instances
    /\ providers[i].in_flight > 0
    /\ rate_limiter' = rate_limiter + 1
    /\ providers' = [providers EXCEPT ![i].in_flight = @ - 1]
    /\ UNCHANGED <<cfg, calls, mapper, api_key, built, priced>>

GateNext ==
    \/ \E max_concurrent \in 1..MaxConcurrentCfg,
          api_key_cfg \in {Unset, "key-of-config"} :
         GeminiProviderInit(max_concurrent, api_key_cfg)
    \/ \E i \in 1..MaxInstances : GateEnter(i)
    \/ \E i \in 1..MaxInstances : GateAdmit(i)
    \/ \E i \in 1..MaxInstances : GateLeave(i)

GateSpec == GateInit /\ [][GateNext]_vars

\* ---------------------------------------------------------- health_check
\* The keys a provider is constructed with (the constructors reject an empty
\* one): Anthropic-shaped, OpenAI-shaped, of neither shape, and a value that
\* is not a str.
ApiKeys ==
    { DefaultKey,
      ApiKey(TRUE, <<"s", "k", "-", "1">>),
      ApiKey(TRUE, <<"k", "e", "y">>),
      ApiKey(FALSE, <<"1">>) }

AnthropicKeyPrefix == <<"s", "k", "-", "a", "n", "t", "-">>

OpenAIKeyPrefix == <<"s", "k", "-">>

\* The body of the try block of AnthropicProvider/OpenAIProvider
\* .health_check: "not self.api_key or not self.api_key.startswith(prefix)"
\* returns False, else True; startswith on a value that is not a str raises
\* AttributeError.
KeyShapeProbe(key, prefix) ==
    IF Len(key.text) = 0 THEN Returned(HealthFalse)
    ELSE IF ~key.is_str THEN Raised(BuiltinError("AttributeError"))
    ELSE IF ~StartsWith(key.text, prefix) THEN Returned(HealthFalse)
    ELSE Returned(HealthTrue)

\* AnthropicProvider.health_check / OpenAIProvider.health_check: the probe,
\* and "except Exception" returning False.
KeyShapeHealthCheck(key, prefix) ==
    LET r == KeyShapeProbe(key, prefix)
    IN  IF ~r.raised THEN r.error
        ELSE IF ExceptException(r.error) THEN HealthFalse
        ELSE Result("error", r.error, NoResponse)

HealthInit ==
    /\ cfg \in Configs
    /\ rate_limiter = cfg.max_concurrent_requests
    /\ calls = [c \in Calls |-> IdleCall]
    /\ mapper = NoMapping
    /\ providers = <<>>
    /\ api_key \in ApiKeys
    /\ built = NoConstruction
    /\ priced = NoPricing

\* The caller awaits provider.health_check().  Gemini's builds the test
\* request and awaits self.generate(test_request); the other two only look
\* at the key.
HealthCheck(c) ==
    /\ calls[c].pc = "idle"
    /\ IF cfg.kind = "gemini"
         THEN LET r == Invoke([calls[c] EXCEPT !.req = HealthCheckRequest,
                                               !.invocation = 1,
                                               !.health_check = TRUE],
                              rate_limiter)
              IN  /\ calls' = [calls EXCEPT ![c] = r.call]
                  /\ rate_limiter' = r.free
         ELSE /\ calls' = [calls EXCEPT ![c] =
                   [calls[c] EXCEPT
                      !.pc = "done", !.health_check = TRUE,
                      !.result = KeyShapeHealthCheck(
                                   api_key,
                                   IF cfg.kind = "anthropic"
                                     THEN AnthropicKeyPrefix
                                     ELSE OpenAIKeyPrefix)]]
              /\ UNCHANGED rate_limiter
    /\ UNCHANGED <<cfg, aux>>

HealthNext ==
    \/ \E c \in Calls : HealthCheck(c)
    \/ \E c \in Calls : Admit(c)
    \/ \E c \in Calls, o \in Outcomes : Respond(c, o)
    \/ \E c \in Calls : Wake(c)
    \/ \E c \in Calls : RetryWake(c)
    \/ \E c \in Calls : Cancel(c)
    \/ Tick

HealthSpec == HealthInit /\ [][HealthNext]_vars

\* ------------------------------------------------ constructing a provider
ConfigApiKeys == {Unset, "", "key-of-config"}

ConfigApiKeyEnvs == {Unset, "MY_LLM_KEY"}

ConstructInit ==
    /\ cfg = DefaultConfig
    /\ rate_limiter = NoRateLimiter
    /\ calls = [c \in Calls |-> IdleCall]
    /\ mapper = NoMapping
    /\ providers = <<>>
    /\ api_key = DefaultKey
    /\ built = NoConstruction
    /\ priced = NoPricing

\* Provider(config) of the given adapter is constructed under an environment.
\* "if not self.api_key: raise ValueError"; GeminiProvider creates the class
\* semaphore before it looks for the key.
Construct(kind, api_key_cfg, api_key_env, environ) ==
    /\ ~built.done
    /\ LET key == ResolveApiKey(kind, api_key_cfg, api_key_env, environ)
       IN  built' = [done |-> TRUE, kind |-> kind,
                     api_key_cfg |-> api_key_cfg,
                     api_key_env |-> api_key_env, environ |-> environ,
                     raised |-> ~Truthy(key),
                     api_key |-> IF Truthy(key) THEN key ELSE Unset]
    /\ rate_limiter' = IF kind = "gemini" /\ rate_limiter = NoRateLimiter
                         THEN cfg.max_concurrent_requests
                         ELSE rate_limiter
    /\ UNCHANGED <<cfg, calls, mapper, providers, api_key, priced>>

ConstructNext ==
    \E kind \in Kinds, api_key_cfg \in ConfigApiKeys,
       api_key_env \in ConfigApiKeyEnvs, environ \in Environs :
      Construct(kind, api_key_cfg, api_key_env, environ)

ConstructSpec == ConstructInit /\ [][ConstructNext]_vars

\* ------------------------------------------------ the cost computation
\* The arguments calculate_cost is called with: models of each pricing
\* table, a Gemini model and identifiers no table has.
CostModels ==
    {"claude-3-5-sonnet-20241022", "claude-3-haiku-20240307", "gpt-4",
     "gpt-3.5-turbo", "models/gemini-2.5-pro", "no-such-model", ""}

TokenCounts == 0..MaxTokens

CostInit ==
    /\ cfg = DefaultConfig
    /\ rate_limiter = cfg.max_concurrent_requests
    /\ calls = [c \in Calls |-> IdleCall]
    /\ mapper = NoMapping
    /\ providers = <<>>
    /\ api_key = DefaultKey
    /\ built = NoConstruction
    /\ priced = NoPricing

\* provider.calculate_cost(input_tokens, output_tokens, model) is called on a
\* provider of the given adapter (the record keeps this call, whether other
\* calls followed, and its repetition).
Cost(kind, input_tokens, output_tokens, model) ==
    /\ ~priced.called
    /\ priced' = [called |-> TRUE, kind |-> kind, model |-> model,
                  input_tokens |-> input_tokens,
                  output_tokens |-> output_tokens,
                  prices |-> get_cost_per_token(kind, model),
                  cost |-> calculate_cost(kind, input_tokens, output_tokens,
                                          model),
                  between |-> FALSE, again |-> -1]
    /\ UNCHANGED <<cfg, rate_limiter, calls, mapper, providers, api_key, built>>

\* calculate_cost is called with other arguments; its value is dropped.
CostBetween(kind, input_tokens, output_tokens, model) ==
    /\ priced.called
    /\ ~priced.between
    /\ priced.again = -1
    /\ calculate_cost(kind, input_tokens, output_tokens, model) >= 0
    /\ priced' = [priced EXCEPT !.between = TRUE]
    /\ UNCHANGED <<cfg, rate_limiter, calls, mapper, providers, api_key, built>>

\* calculate_cost is called once more with the arguments of the kept call.
CostAgain ==
    /\ priced.called
    /\ priced.again = -1
    /\ priced' = [priced EXCEPT
                    !.again = calculate_cost(priced.kind, priced.input_tokens,
                                             priced.output_tokens,
                                             priced.model)]
    /\ UNCHANGED <<cfg, rate_limiter, calls, mapper, providers, api_key, built>>

CostNext ==
    \/ \E kind \in Kinds, input_tokens \in TokenCounts,
          output_tokens \in TokenCounts, model \in CostModels :
         Cost(kind, input_tokens, output_tokens, model)
    \/ \E kind \in Kinds, input_tokens \in TokenCounts,
          output_tokens \in TokenCounts, model \in CostModels :
         CostBetween(kind, input_tokens, output_tokens, model)
    \/ CostAgain

CostSpec == CostInit /\ [][CostNext]_vars

\* ------------------------------------------- the retry loop's backoff
\* Gemini providers whose max_retries leaves room for two backoff delays.
BackoffInit ==
    /\ cfg \in [kind : {"gemini"},
                 max_retries : 1..MaxBackoffRetries,
                 max_concurrent_requests : 1..MaxConcurrentCfg,
                 genai_client : {FALSE}]
    /\ rate_limiter = cfg.max_concurrent_requests
    /\ calls = [c \in Calls |-> IdleCall]
    /\ mapper = NoMapping
    /\ providers = <<>>
    /\ api_key = DefaultKey
    /\ built = NoConstruction
    /\ priced = NoPricing

\* One caller's valid requests go through the REST loop; the call is not
\* cancelled and finds the gate free.
BackoffCalls == {1}

BackoffNext ==
    \/ \E c \in BackoffCalls,
          request \in {r \in Requests : validate_request(r) = NoError} :
         Issue(c, request)
    \/ \E c \in BackoffCalls, o \in Outcomes : Respond(c, o)
    \/ \E c \in BackoffCalls : Wake(c)
    \/ \E c \in BackoffCalls : RetryWake(c)
    \/ Tick

BackoffSpec == BackoffInit /\ [][BackoffNext]_vars

\* ------------------------------------- generate calls that are not cancelled
\* Gemini providers (the adapter with the admission gate and the retry
\* loop) on the REST path.
FairInit ==
    /\ cfg \in {k \in Configs : k.kind = "gemini" /\ ~k.genai_client}
    /\ rate_limiter = cfg.max_concurrent_requests
    /\ calls = [c \in Calls |-> IdleCall]
    /\ mapper = NoMapping
    /\ providers = <<>>
    /\ api_key = DefaultKey
    /\ built = NoConstruction
    /\ priced = NoPricing

\* The valid requests and the one with an empty prompt.
FairRequests ==
    {r \in Requests : validate_request(r) = NoError \/ r.prompt = ""}

\* A vendor call ends with a 200, a rate limit, or the ClientTimeout.
FairOutcomes ==
    {o \in Outcomes : o.type = "timeout" \/ o.status = 429
                       \/ o.payload.has_total}

\* The steps of Spec but the caller's cancellation.
FairNext ==
    \/ \E c \in Calls, request \in FairRequests : Issue(c, request)
    \/ \E c \in Calls : Admit(c)
    \/ \E c \in Calls, o \in FairOutcomes : Respond(c, o)
    \/ \E c \in Calls : Wake(c)
    \/ \E c \in Calls : RetryWake(c)
    \/ Tick

\* What the event loop and the transport guarantee: a pending POST
\* ends (with an answer, an error, or the ClientTimeout), time passes
\* while a coroutine sleeps, a coroutine whose sleep is over or whose
\* semaphore has a free slot is resumed.
Fairness ==
    /\ WF_vars(Tick)
    /\ \A c \in Calls :
         /\ WF_vars(Admit(c))
         /\ WF_vars(\E o \in FairOutcomes : Respond(c, o))
         /\ WF_vars(Wake(c))
         /\ WF_vars(RetryWake(c))

FairSpec == FairInit /\ [][FairNext]_vars /\ Fairness

\* ================================================================== claims
\* The Request invariants of the data model, stated on the request's fields.
IsValid(request) ==
    /\ request.prompt # ""
    /\ request.temperature >= 0
    /\ request.temperature <= TemperatureMax
    /\ request.max_tokens >= 1

\* The call is inside a vendor call: an HTTP POST or an SDK call is pending.
InVendorCall(c) == calls[c].pc \in {"inflight", "sdk"}

InProgress(c) == calls[c].pc \in Suspended

\* C1: a Request with an empty prompt, a temperature outside [0,2] or
\* max_tokens < 1 never reaches a transport call (HTTP POST or SDK call) and
\* its generate call fails; every Request inside a transport call is valid;
\* the request built by Gemini health_check passes validation.
C1_InvalidRequestNeverReachesTransport ==
    /\ IsValid(HealthCheckRequest)
    /\ validate_request(HealthCheckRequest) = NoError
    /\ \A c \in Calls :
         /\ calls[c].pc \in {"gate", "inflight", "backoff", "sdk"}
              => IsValid(calls[c].req)
         /\ (calls[c].pc # "idle" /\ ~IsValid(calls[c].req))
              => /\ calls[c].posts = 0
                 /\ calls[c].sdk_calls = 0
                 /\ calls[c].pc = "done" => calls[c].result.tag = "error"

\* C1 witness: an invalid request was issued and its call has failed without
\* a transport call, while a valid request is inside a transport call.
C1_Witness ==
    \E c, d \in Calls :
      /\ ~IsValid(calls[c].req)
      /\ calls[c].pc = "done"
      /\ calls[c].result.tag = "error"
      /\ calls[c].posts = 0
      /\ InVendorCall(d)

\* C2: the number of calls that are inside a vendor call at the same time
\* never exceeds the adapter's configured max_concurrent_requests.
C2_InFlightBounded ==
    Cardinality({c \in Calls : InVendorCall(c)}) <= cfg.max_concurrent_requests

NonRetryableKinds ==
    {"AuthenticationError", "QuotaExceededError", "ContentFilterError",
     "ContextLengthExceededError"}

\* The taxonomy error of the outcome of an attempt that got an HTTP response:
\* what from_http_status makes of its status and body.
Classified(o, provider) ==
    from_http_status(o.status, provider,
                     IF o.has_quota THEN QuotaMarker ELSE <<>>, NoKwargs).error

\* C3: once an attempt's response is classified as a non-retryable kind
\* (401/403, quota, content filter, context length), the retry loop of
\* generate makes no further attempt and takes no backoff delay, for every
\* max_retries >= 1: the invocation of generate has raised, and if the call
\* has ended it ended with an error.
C3_NonRetryableNotRetried ==
    \A c \in Calls :
      ( /\ cfg.max_retries >= 1
        /\ calls[c].last.type = "http"
        /\ calls[c].last.status # 200
        /\ Classified(calls[c].last, cfg.kind).kind \in NonRetryableKinds )
      => /\ calls[c].pc \in {"done", "retrywait"}
         /\ calls[c].pc = "done" => calls[c].result.tag = "error"

\* C4: one caller-issued Gemini generate call makes at most max_retries
\* HTTP POSTs in total, the re-invocations by SmartRetry included.
C4_AttemptsBoundedByMaxRetries ==
    \A c \in Calls :
      cfg.kind = "gemini" => calls[c].posts <= cfg.max_retries

\* C5: the slots of the admission gate are conserved: the free slots are
\* never negative, free slots plus the slots held by live calls equal the
\* gate's capacity, and when no call is in progress every slot is free -
\* whichever way calls ended (success, exhausted retries, an exception, or
\* cancellation at the gate, in backoff or in flight).
C5_GateSlotsReleased ==
    /\ rate_limiter >= 0
    /\ rate_limiter + Cardinality({c \in Calls : Holds(c)})
         = cfg.max_concurrent_requests
    /\ (\A c \in Calls : ~InProgress(c))
         => rate_limiter = cfg.max_concurrent_requests

\* C5 witness: on a Gemini provider one call that had posted was cancelled,
\* another ended with an error after posting, no call is in progress and
\* every slot is free again.
C5_Witness ==
    /\ cfg.kind = "gemini"
    /\ \E c, d \in Calls :
         /\ calls[c].pc = "done"
         /\ calls[c].result.error.kind = "CancelledError"
         /\ calls[c].posts >= 1
         /\ calls[d].pc = "done"
         /\ calls[d].result.error.kind = "Exception"
         /\ calls[d].posts >= 1
    /\ \A c \in Calls : ~InProgress(c)
    /\ rate_limiter = cfg.max_concurrent_requests

\* The classified Error of the outcome of a failed attempt, carrying the
\* retry-after value of the response.
ExpectedError(o, provider) ==
    IF o.type = "http"
      THEN [Classified(o, provider) EXCEPT !.retry_after = o.retry_after]
      ELSE ErrorValue("TimeoutError", provider, -1, -1, "none", "none")

\* C6: a generate call that failed on a transport outcome surfaces an error
\* of the taxonomy: for a non-200 status the kind from_http_status assigns
\* to it, for a transport deadline TimedOut; never a generic exception.
C6_FailuresAreClassified ==
    \A c \in Calls :
      (calls[c].pc = "done" /\ calls[c].result.tag = "error"
         /\ calls[c].last.type # "none")
      => /\ calls[c].result.error.kind \in TaxonomyKinds
         /\ (calls[c].last.type = "http" /\ calls[c].last.status # 200)
              => calls[c].result.error.kind
                   = Classified(calls[c].last, cfg.kind).kind
         /\ calls[c].last.type = "timeout"
              => calls[c].result.error.kind = "TimeoutError"

\* C7: when the attempts of a call are exhausted on a retryable failure
\* (429, a transport timeout), the error raised to the caller is the
\* classified Error of the last attempt with its attributes (RateLimited
\* with the same retry_after, TimedOut), not a new or generic error.
C7_ExhaustionPropagatesLastError ==
    \A c \in Calls :
      ( /\ calls[c].pc = "done"
        /\ calls[c].result.tag = "error"
        /\ cfg.max_retries >= 1
        /\ calls[c].posts >= cfg.max_retries
        /\ \/ calls[c].last.type = "timeout"
           \/ calls[c].last.type = "http" /\ calls[c].last.status = 429 )
      => calls[c].result.error = ExpectedError(calls[c].last, cfg.kind)

\* The Response fields other than the latency.
Payloadfields(resp) ==
    [content |-> resp.content, model |-> resp.model,
     provider |-> resp.provider, tokens_used |-> resp.tokens_used,
     cost |-> resp.cost]

\* C8: with max_retries >= 2, for every adapter, a call whose first attempt
\* ended in a transport timeout has not failed (a second attempt follows),
\* and a Response returned by the second attempt has the content, model,
\* provider, token counts and cost of the Response of a call whose first
\* attempt returned the same payload.
C8_TimeoutThenSuccessEqualsSingleSuccess ==
    \A c \in Calls :
      /\ ( /\ cfg.max_retries >= 2
           /\ calls[c].posts = 1
           /\ calls[c].last = Timeout )
         => calls[c].pc # "done"
      /\ ( /\ cfg.max_retries >= 2
           /\ calls[c].pc = "done"
           /\ calls[c].result.tag = "response"
           /\ calls[c].posts = 2 )
         => Payloadfields(calls[c].result.response)
              = Payloadfields(GeminiResponse([IdleCall EXCEPT !.req = calls[c].req],
                                             calls[c].last.payload))

\* C9: the latency_ms of a returned Response is the time between the
\* dispatch of the attempt that returned 200 and the receipt of its
\* response (gate wait, earlier attempts and backoff delays excluded).
C9_LatencyOverWinningAttempt ==
    \A c \in Calls :
      (calls[c].pc = "done" /\ calls[c].result.tag = "response")
      => calls[c].result.response.latency_ms = calls[c].t_disp * MsPerSecond

\* C10: validate_request fails exactly for the Requests with an empty
\* prompt, a temperature outside [0,2] or max_tokens < 1, and its failure is
\* the taxonomy's InvalidRequestError carrying the provider identifier and
\* the offending parameter; the caller of generate sees that error.
C10_ValidationRaisesInvalidRequest ==
    \A c \in Calls :
      calls[c].pc # "idle"
      => /\ (validate_request(calls[c].req) # NoError) <=> ~IsValid(calls[c].req)
         /\ ~IsValid(calls[c].req)
              => /\ validate_request(calls[c].req).kind = "InvalidRequestError"
                 /\ validate_request(calls[c].req).provider = cfg.kind
                 /\ validate_request(calls[c].req).parameter # "none"
                 /\ calls[c].pc = "done"
                      => calls[c].result.error.kind = "InvalidRequestError"

\* C11: a generate call whose request fails validation is never retried:
\* it has failed at its first invocation, without a delay and without being
\* invoked again (SmartRetry around Gemini's generate included).
C11_ValidationFailureNeverRetried ==
    \A c \in Calls :
      (calls[c].pc # "idle" /\ ~IsValid(calls[c].req))
      => /\ calls[c].pc = "done"
         /\ calls[c].result.tag = "error"

\* C12: from_http_status(429, provider, body, retry_after=r) returns a
\* RateLimitError whose retry_after is r and whose provider is the given
\* provider, for every supplied r.
C12_RateLimitedCarriesRetryAfter ==
    ( /\ mapper.called
      /\ mapper.status_code = 429
      /\ mapper.kwargs.retry_after # -1 )
    => /\ ~mapper.yield.raised
       /\ mapper.yield.error.kind = "RateLimitError"
       /\ mapper.yield.error.retry_after = mapper.kwargs.retry_after
       /\ mapper.yield.error.provider = mapper.provider

\* The kind the taxonomy table gives a status code.
TableKind(status_code) ==
    CASE status_code \in {401, 403} -> "AuthenticationError"
      [] status_code = 429 -> "RateLimitError"
      [] status_code = 402 -> "QuotaExceededError"
      [] status_code = 404 -> "ModelNotFoundError"
      [] status_code = 400 -> "InvalidRequestError"
      [] status_code \in {502, 503} -> "ProviderUnavailableError"
      [] OTHER -> "LLMProviderError"

HasQuotaMarker(text) == Contains(Lower(text), QuotaMarker)

\* C13: called with a status code, a provider and a body without a quota
\* marker, from_http_status returns the kind of the taxonomy table for the
\* status code, with the given provider, and the base LLMProviderError
\* carrying the status code for every status code without a row.
C13_StatusMapsToTableKind ==
    ( /\ mapper.called
      /\ mapper.kwargs = NoKwargs
      /\ ~HasQuotaMarker(mapper.response_text) )
    => /\ ~mapper.yield.raised
       /\ mapper.yield.error.kind = TableKind(mapper.status_code)
       /\ mapper.yield.error.provider = mapper.provider
       /\ mapper.yield.error.kind = "LLMProviderError"
            => mapper.yield.error.status_code = mapper.status_code

\* C13 witness: a 403 with a body without a quota marker was mapped to
\* AuthenticationError.
C13_Witness ==
    /\ mapper.called
    /\ mapper.kwargs = NoKwargs
    /\ mapper.status_code = 403
    /\ mapper.response_text = <<"q", "u", "o", "t">>
    /\ mapper.yield.error.kind = "AuthenticationError"

\* The status codes with a row of their own in the taxonomy table.
RowStatusCodes == {400, 401, 403, 404, 429, 502, 503}

\* C14: the quota heuristic decides only when the status code is ambiguous:
\* a status code with a row of its own gets that row's kind for every body,
\* and QuotaExceededError comes from the body only for the other codes.
C14_QuotaHeuristicOnlyWhenAmbiguous ==
    (mapper.called /\ mapper.kwargs = NoKwargs)
    => /\ mapper.status_code \in RowStatusCodes
            => mapper.yield.error.kind = TableKind(mapper.status_code)
       /\ mapper.yield.error.kind = "QuotaExceededError"
            => \/ mapper.status_code = 402
               \/ /\ mapper.status_code \notin RowStatusCodes
                  /\ HasQuotaMarker(mapper.response_text)

\* C15: from_http_status is total and pure: for every status code, body,
\* provider and combination of the keywords retry_after and model it
\* returns an error with the given provider, never raises, and yields the
\* same when called again with the same arguments.
C15_MapperTotalAndPure ==
    mapper.called
    => /\ ~mapper.yield.raised
       /\ mapper.yield.error.provider = mapper.provider
       /\ mapper.again # NoYield => mapper.again = mapper.yield

\* A Response with every field filled.
Filled(resp) ==
    /\ resp.model # ""
    /\ resp.provider # ""
    /\ resp.tokens_used >= 0
    /\ resp.cost >= 0
    /\ resp.latency_ms >= 0

\* C16: a generate call that has ended has either returned a Response with
\* its fields filled or raised an error to the caller; it never ends without
\* a value, for every max_retries (0 included).
C16_EndsWithResponseOrError ==
    \A c \in Calls :
      calls[c].pc = "done"
      => /\ calls[c].result.tag \in {"response", "error"}
         /\ calls[c].result.tag = "response"
              => Filled(calls[c].result.response)
         /\ calls[c].result.tag = "error"
              => calls[c].result.error # NoError

\* The outcome of a failed attempt is of a retryable kind: anything but an
\* HTTP status the taxonomy classifies as non-retryable.
Retryable(o) ==
    ~( /\ o.type = "http"
       /\ o.status # 200
       /\ Classified(o, cfg.kind).kind \in NonRetryableKinds )

\* C17: the attempts of one invocation of generate follow
\* Idle -> Dispatched -> {Succeeded | RetryableFailure | FatalFailure}: an
\* ended call takes no further step, and a further attempt is dispatched
\* only from a failure of a retryable kind, only while the attempts made are
\* fewer than max_retries, and only when the backoff delay is over.
C17_AttemptStateMachine ==
    [][\A c \in Calls :
         /\ calls[c].pc = "done" => calls'[c] = calls[c]
         /\ calls'[c].attempt > calls[c].attempt
              => /\ calls[c].pc = "backoff"
                 /\ calls[c].sleep = 0
                 /\ calls[c].attempt + 1 < cfg.max_retries
                 /\ Retryable(calls[c].last)]_vars

\* C18: a generate call cancelled at the gate, in a backoff delay or with
\* its request in flight is aborted: it has ended, with a cancellation or
\* TimedOut error for the caller, and (an ended call takes no step) makes no
\* further transport attempt; the cancellation is not retried.
C18_CancellationAborts ==
    \A c \in Calls :
      calls[c].cancelled
      => /\ calls[c].pc = "done"
         /\ calls[c].result.tag = "error"
         /\ calls[c].result.error.kind \in {"CancelledError", "TimeoutError"}

\* C18 witness: on a Gemini provider one call was cancelled after it had
\* posted (in flight or in backoff) and another while it waited at the gate.
C18_Witness ==
    /\ cfg.kind = "gemini"
    /\ \E c, d \in Calls :
         /\ calls[c].cancelled
         /\ calls[c].posts >= 1
         /\ calls[c].result.error.kind = "CancelledError"
         /\ calls[d].cancelled
         /\ calls[d].posts = 0
         /\ calls[d].sdk_calls = 0
         /\ calls[d].result.error.kind = "CancelledError"

\* C19: the gate is per instance: an instance never has more calls inside
\* its gate than its own max_concurrent_requests, and a call of an instance
\* waits at the gate only when that instance's own slots are all taken -
\* calls of other instances take none of them - in whatever order instances
\* with different max_concurrent_requests are constructed.
C19_GatePerInstance ==
    \A i \in Instances :
      /\ providers[i].in_flight <= providers[i].max_concurrent_requests
      /\ providers[i].waiting > 0
           => providers[i].in_flight = providers[i].max_concurrent_requests

\* The probe of the health_check call c has detected a problem: the vendor
\* call of Gemini's generate failed (a non-200 status, a timeout, an
\* exception, a 200 without a candidate), or the key has not the shape the
\* Anthropic / OpenAI adapter looks for.
ProbeFailed(c) ==
    IF cfg.kind = "gemini"
      THEN /\ calls[c].last # NoOutcome
           /\ ~( /\ calls[c].last.type = "http"
                 /\ calls[c].last.status = 200
                 /\ calls[c].last.payload.has_candidates )
      ELSE \/ ~api_key.is_str
           \/ ~StartsWith(api_key.text,
                          IF cfg.kind = "anthropic" THEN AnthropicKeyPrefix
                          ELSE OpenAIKeyPrefix)

\* C20: a health_check call that has ended (and was not cancelled by its
\* caller) has returned a boolean, never raised, whatever the transport, the
\* gate and the key were; it returned False whenever its probe detected a
\* problem.
C20_HealthCheckNeverRaises ==
    \A c \in Calls :
      (calls[c].health_check /\ calls[c].pc = "done" /\ ~calls[c].cancelled)
      => /\ calls[c].result.tag \in {"true", "false"}
         /\ ProbeFailed(c) => calls[c].result.tag = "false"

\* C20 witness: a Gemini health_check whose generate failed on a transport
\* timeout after waiting at the gate returned False, while the other
\* health_check returned True.
C20_Witness ==
    /\ cfg.kind = "gemini"
    /\ \E c, d \in Calls :
         /\ calls[c].health_check
         /\ calls[c].pc = "done"
         /\ calls[c].last = Timeout
         /\ calls[c].result.tag = "false"
         /\ calls[d].health_check
         /\ calls[d].pc = "done"
         /\ calls[d].result.tag = "true"

\* C21: for every adapter, construction resolves the credential from the
\* explicit configuration value if one is present, otherwise from the
\* environment variable the configured fallback name gives (the vendor's
\* default name when none is configured), and otherwise fails with a
\* construction-time error, no instance coming to exist.
VendorEnvName(kind) ==
    IF kind = "gemini" THEN "GEMINI_API_KEY"
    ELSE IF kind = "anthropic" THEN "ANTHROPIC_API_KEY"
    ELSE "OPENAI_API_KEY"

ExpectedCredential(b) ==
    IF Truthy(b.api_key_cfg) THEN b.api_key_cfg
    ELSE LET name == IF b.api_key_env # Unset THEN b.api_key_env
                     ELSE VendorEnvName(b.kind)
         IN  IF b.environ[name] = "set" THEN EnvValue(name) ELSE Unset

C21_CredentialResolutionOrder ==
    built.done =>
      IF ExpectedCredential(built) = Unset THEN built.raised
      ELSE ~built.raised /\ built.api_key = ExpectedCredential(built)

\* C22: no operation on a provider instance (generate, its retries and
\* re-invocations, a cancellation, the passing of time) changes the
\* instance's configuration or its credential: in every step both stay what
\* construction made them.
C22_ConfigurationImmutable ==
    [][cfg' = cfg /\ api_key' = api_key]_vars

\* A call is at its second attempt while the other call has ended.
C22_Witness ==
    \E c, d \in Calls :
      /\ calls[c].pc = "inflight" /\ calls[c].attempt = 1
      /\ calls[d].pc = "done"
      /\ cfg.max_retries = MaxRetriesCfg

\* C23: the Response a generate call returned is self-consistent: its
\* tokens_used is the sum of the input and output token counts of the
\* vendor's usage block, and its cost is calculate_cost of those two counts
\* and the Response's model - also when the usage block supplies a total
\* that differs from input + output.
C23_ResponseSelfConsistent ==
    \A c \in Calls :
      (calls[c].pc = "done" /\ calls[c].result.tag = "response") =>
        LET usage == calls[c].last.payload
            resp == calls[c].result.response
        IN  /\ resp.tokens_used =
                 usage.prompt_tokens + usage.completion_tokens
            /\ resp.cost = calculate_cost(cfg.kind, usage.prompt_tokens,
                                          usage.completion_tokens, resp.model)

\* C24: for every adapter, model identifier and pair of token counts,
\* calculate_cost is non-negative, gives the same value when called again
\* with the same arguments (whatever was called in between), and does not
\* decrease when input_tokens or output_tokens grows.
C24_CostNonNegativeDeterministicMonotone ==
    priced.called =>
      /\ priced.cost >= 0
      /\ priced.again # -1 => priced.again = priced.cost
      /\ \A more \in TokenCounts :
           /\ more >= priced.input_tokens =>
                calculate_cost(priced.kind, more, priced.output_tokens,
                               priced.model) >= priced.cost
           /\ more >= priced.output_tokens =>
                calculate_cost(priced.kind, priced.input_tokens, more,
                               priced.model) >= priced.cost

\* A call with a positive cost was repeated after another call.
C24_Witness ==
    /\ priced.called /\ priced.between /\ priced.again # -1
    /\ priced.cost > 0
    /\ priced.input_tokens > 0 /\ priced.output_tokens > 0

\* C25: for a model identifier the adapter's pricing table does not have,
\* get_cost_per_token returns the adapter's default pair (Anthropic: the
\* claude-3-5-sonnet pair, OpenAI: the gpt-4-turbo pair, Gemini: zero/zero)
\* and calculate_cost returns a number; neither fails.
InPricingTable(kind, model) ==
    \/ kind = "anthropic" /\ model \in DOMAIN AnthropicPricing
    \/ kind = "openai" /\ model \in DOMAIN OpenAIPricing

DefaultPricing(kind) ==
    IF kind = "anthropic" THEN AnthropicPricing["claude-3-5-sonnet-20241022"]
    ELSE IF kind = "openai" THEN OpenAIPricing["gpt-4-turbo"]
    ELSE Price(0, 0)

C25_UnknownModelDefaultPricing ==
    (priced.called /\ ~InPricingTable(priced.kind, priced.model)) =>
      /\ priced.prices = DefaultPricing(priced.kind)
      /\ priced.cost \in Nat
      /\ priced.cost =
           RoundHalfEven(priced.input_tokens * DefaultPricing(priced.kind).input
                         + priced.output_tokens
                           * DefaultPricing(priced.kind).output, 100)

\* An Anthropic provider priced a model its table does not have.
C25_Witness ==
    /\ priced.called
    /\ priced.kind = "anthropic" /\ priced.model = "no-such-model"
    /\ priced.cost > 0

\* C26: backoff is exponential, uncapped and without jitter.  A failed
\* attempt with index k is followed by a delay only when attempts are left,
\* and then the delay asked for is exactly 2^k, whether the attempt failed
\* with a non-200 status, a timeout or another exception; the delay runs
\* down with the clock and the next attempt (index k + 1) is dispatched
\* only when it has elapsed; the final attempt is followed by no delay.
C26_BackoffStep(c) ==
    LET now == calls[c]
        next == calls'[c]
    IN  /\ (now.pc = "inflight" /\ next.pc = "backoff") =>
             /\ now.attempt + 1 < cfg.max_retries
             /\ next.attempt = now.attempt
             /\ next.sleep = 2 ^ now.attempt
        /\ (now.pc = "inflight" /\ now.attempt + 1 >= cfg.max_retries) =>
             next.pc # "backoff"
        /\ (now.pc = "backoff" /\ next.pc = "backoff") =>
             /\ next.attempt = now.attempt
             /\ next.sleep = now.sleep
                \/ (now.sleep > 0 /\ next.sleep = now.sleep - 1)
        /\ (now.pc = "backoff" /\ next.pc # "backoff") =>
             /\ now.sleep = 0
             /\ next.pc = "inflight"
             /\ next.attempt = now.attempt + 1

C26_ExponentialBackoff ==
    [][\A c \in Calls : C26_BackoffStep(c)]_vars

\* A call waits after its attempt with index 1 timed out; the delay of 2 has
\* not begun to run down.
C26_Witness ==
    \E c \in Calls :
      /\ calls[c].pc = "backoff" /\ calls[c].attempt = 1
      /\ calls[c].sleep = 2
      /\ calls[c].last.type = "timeout"

\* C27: the model of the vendor call and of the Response is the request's
\* model override when one is given and the provider's default model
\* otherwise, for every adapter; and a call with a valid request and no
\* override reaches the transport (it does not end before a vendor call
\* was made, unless it was cancelled).
ExpectedModel(request) ==
    IF request.model_override # "None" THEN request.model_override
    ELSE default_model(cfg.kind)

C27_ModelOverrideOrDefault ==
    \A c \in Calls :
      /\ InVendorCall(c) =>
           VendorModel(cfg.kind, calls[c].req) = ExpectedModel(calls[c].req)
      /\ (calls[c].pc = "done" /\ calls[c].result.tag = "response") =>
           calls[c].result.response.model = ExpectedModel(calls[c].req)
      /\ ( /\ calls[c].pc = "done"
           /\ ~calls[c].cancelled
           /\ IsValid(calls[c].req)
           /\ calls[c].req.model_override = "None" ) =>
           calls[c].posts + calls[c].sdk_calls > 0

\* C28: the deadline applied to a transport attempt is the request's
\* timeout override when the request carries one, and the provider's
\* configured timeout only when it carries none.
C28_RequestTimeoutApplied ==
    \A c \in Calls :
      calls[c].pc = "inflight" =>
        calls[c].deadline = IF calls[c].req.timeout # NoTimeout
                              THEN calls[c].req.timeout
                              ELSE ConfigTimeout

\* C30: in Gemini generate every HTTP 200 ends the call successfully: the
\* call that received it is done and holds a Response, with empty content
\* when the payload has no candidates; it is not waiting in a backoff delay
\* or for a re-invocation, it makes no further attempt and holds no error.
C30_Gemini200EndsSuccessfully ==
    \A c \in Calls :
      ( /\ cfg.kind = "gemini"
        /\ calls[c].last.type = "http"
        /\ calls[c].last.status = 200 ) =>
        /\ calls[c].pc = "done"
        /\ calls[c].result.tag = "response"
        /\ ~calls[c].last.payload.has_candidates =>
             calls[c].result.response.content = ""

\* C29: under fairness and without cancellation every generate call
\* terminates.  A call suspended at the gate is eventually admitted (its
\* POST goes out); an admitted call makes attempts with indices below
\* max_retries only and then returns or raises; and the gate does not
\* deadlock: while a call waits at it, a slot is free or another call
\* holds one.
C29_AttemptsBounded ==
    \A c \in Calls :
      calls[c].pc \in {"inflight", "backoff"} =>
        calls[c].attempt < cfg.max_retries

C29_GateNotDeadlocked ==
    \A c \in Calls :
      calls[c].pc = "gate" =>
        rate_limiter > 0 \/ \E d \in Calls : d # c /\ Holds(d)

C29_EventuallyTerminates ==
    /\ [](C29_AttemptsBounded /\ C29_GateNotDeadlocked)
    /\ \A c \in Calls :
         /\ (calls[c].pc = "gate") ~> (calls[c].pc = "inflight")
         /\ (calls[c].pc \in Suspended) ~> (calls[c].pc = "done")

\* A call waits at the full gate while the call that holds the only slot
\* sleeps between two attempts.
C29_Witness ==
    \E c, d \in Calls :
      /\ cfg.max_concurrent_requests = 1
      /\ calls[c].pc = "gate"
      /\ calls[d].pc = "backoff" /\ calls[d].sleep > 0

\* C31: a Gemini call on the REST path keeps its gate slot from admission
\* until it leaves the loop, the backoff delays between attempts included:
\* every call that has a POST pending or sleeps between two attempts
\* accounts for one taken slot, so their number never exceeds the capacity
\* and the free slots are the capacity minus their number.
InLoop(c) == calls[c].pc = "inflight" \/ calls[c].pc = "backoff"

C31_SlotHeldThroughBackoff ==
    cfg.kind = "gemini" =>
      LET busy == Cardinality({c \in Calls : InLoop(c)})
      IN  /\ busy <= cfg.max_concurrent_requests
          /\ rate_limiter = cfg.max_concurrent_requests - busy

\* C31, its reachable state: a caller is blocked at the gate, no slot is
\* free, and no vendor request is in flight - the slot is with a call that
\* sleeps.
C31_Witness ==
    /\ cfg.kind = "gemini"
    /\ rate_limiter = 0
    /\ \E c \in Calls : calls[c].pc = "gate"
    /\ \A c \in Calls : ~InVendorCall(c)
    /\ \E d \in Calls : calls[d].pc = "backoff"

\* C32: a Gemini construction that fails for lack of a credential leaves
\* the shared state as it was: the admission gate exists or not, and has
\* the capacity, that it had before the failed construction.
C32_FailedConstructionNoEffect ==
    [][(built' # built /\ built'.raised) => rate_limiter' = rate_limiter]_vars

\* C33: a Gemini health_check that has ended (uncancelled) returned true
\* only if its probe's generate call obtained an HTTP 200 from the vendor,
\* and returned false when no vendor call succeeded - for every max_retries,
\* 0 included.
ProbeGot200(c) ==
    /\ calls[c].posts > 0
    /\ calls[c].last.type = "http"
    /\ calls[c].last.status = 200

C33_HealthTrueOnlyAfter200 ==
    \A c \in Calls :
      ( /\ cfg.kind = "gemini"
        /\ calls[c].health_check
        /\ calls[c].pc = "done"
        /\ ~calls[c].cancelled ) =>
        /\ calls[c].result.tag = "true" => ProbeGot200(c)
        /\ ~ProbeGot200(c) => calls[c].result.tag = "false"

====
